---- MODULE Spec2Model ----
(***************************************************************************)
(* Model of svg_gen.py: the SvgNode tree, its width()/height() measurement *)
(* and generate() placement, the gen_html overlay, SvgConf.text_width and  *)
(* the SvgConfManager singleton.                                           *)
(*                                                                         *)
(* Numbers are integers.  The inputs are chosen so that every Python float *)
(* expression of the source is exact on them (texts of 0 or 10 characters, *)
(* font size 12, even sizes where the source halves a value).              *)
(***************************************************************************)
EXTENDS Integers, Sequences, FiniteSets, TLC

VARIABLES
    nodes,              \* the SvgNode objects, by identity 1..Len(nodes); node 1 is the root
    calls,              \* the generate() calls made on the root, oldest first
    html,               \* <<the last gen_html() call>>: its value, and the number of
                        \* generate() calls made before it; <<>> before the first call
    result,             \* the last add_child() call and the exception it raised
    conf,               \* the SvgConf the nodes of the tree share
    text_width_cache,   \* conf._text_width_cache
    cairo,              \* how the cairo backend behaves in this run
    instance,           \* SvgConfManager._instance
    lock,               \* SvgConfManager._lock: TRUE while a thread holds it
    pc,                 \* per thread: position inside its SvgConfManager call
    arg,                \* per thread: the conf passed to set_config
    ret,                \* per thread: value returned by its last get_config
    installed           \* every SvgConf that was ever assigned to _instance

vars == <<nodes, calls, html, result, conf, text_width_cache, cairo,
          instance, lock, pc, arg, ret, installed>>

layoutVars == <<nodes, calls, html, result, conf, text_width_cache, cairo>>
managerVars == <<instance, lock, pc, arg, ret, installed>>

None == "None"

(***************************************************************************)
(* Bounds of the model.                                                    *)
(***************************************************************************)
MaxNodes == 3       \* nodes of a tree built by add_child
MaxCalls == 2       \* generate() calls on one tree
MaxRowLen == 2      \* leaves of one row of a two-row parent
MaxLeaves == 3      \* leaves of a row separated by fixed advances
NumThreads == 2     \* threads calling SvgConfManager

(***************************************************************************)
(* Module constants of svg_gen.py.                                         *)
(***************************************************************************)
DEFAULT_FONT_SIZE == 12
DEFAULT_FONT_FAMILY == "Arial"
DEFAULT_STROKE_WIDTH == 2
DEFAULT_PADDING_X == 5
DEFAULT_PADDING_Y == 4

Max(a, b) == IF a >= b THEN a ELSE b

\* Python's sum() and max() over a list
RECURSIVE py_sum(_)
py_sum(s) == IF s = <<>> THEN 0 ELSE Head(s) + py_sum(Tail(s))

RECURSIVE py_max(_)
py_max(s) == IF Len(s) = 1 THEN s[1] ELSE Max(s[1], py_max(Tail(s)))

(***************************************************************************)
(* SvgConf                                                                 *)
(***************************************************************************)
SvgConf(font_size, font_family, stroke_width, padding_x, padding_y) ==
    [font_size |-> font_size, font_family |-> font_family,
     stroke_width |-> stroke_width, padding_x |-> padding_x, padding_y |-> padding_y]

DefaultSvgConf ==
    SvgConf(DEFAULT_FONT_SIZE, DEFAULT_FONT_FAMILY, DEFAULT_STROKE_WIDTH,
            DEFAULT_PADDING_X, DEFAULT_PADDING_Y)

\* font_size * LINE_HEIGHT_RATIO, LINE_HEIGHT_RATIO = 20 / 12
line_height(c) == (c.font_size * 20) \div 12

(***************************************************************************)
(* SvgConf.text_width and the cairo backend                                *)
(***************************************************************************)
CairoModes == {"ok", "tempfile_fails", "surface_fails", "context_fails"}

\* every exception class the measurement can raise derives from Exception
ExceptionClasses == {"OSError", "UnboundLocalError", "cairo.Error"}

\* width component of cr.text_extents(text) for the selected face and size
text_extents_width(text, bold, font_size, font_family) ==
    (Len(text) * font_size * (IF bold THEN 6 ELSE 5)) \div 10

\* exception raised by the statements under `with ... as surface`, or None
measure_body ==
    IF cairo = "context_fails" THEN "cairo.Error" ELSE None

\* exception leaving `with self._create_cairo_surface() as surface: <body>`, or None
create_cairo_surface(body_exc) ==
    CASE cairo = "tempfile_fails" -> "OSError"            \* NamedTemporaryFile raises before the try
      [] cairo = "surface_fails" -> "UnboundLocalError"   \* SVGSurface raises; the finally clause reads
                                                          \* the unbound local `surface`
      [] OTHER -> body_exc                                \* finally: finish(), unlink; re-raise

\* the clause `except cairo.Error`, narrower than the source's
except_cairo_only(exc) == exc = "cairo.Error"

\* the clause `except Exception as e` of text_width
except_Exception(exc) == exc \in ExceptionClasses

cache_key(text, bold) ==
    [text |-> text, bold |-> bold, font_size |-> conf.font_size, font_family |-> conf.font_family]

\* len(text) * font_size * (0.7 if bold else 0.65)
fallback_width(text, bold) ==
    (Len(text) * conf.font_size * (IF bold THEN 70 ELSE 65)) \div 100

\* result = width * TEXT_WIDTH_SCALE_FACTOR; self._text_width_cache[cache_key] = result
cache_entry(key, width) == [key |-> key, value |-> (width * 3) \div 2]

\* One call of text_width: the exception it raises (or None), the value it
\* returns and the entries it adds to the cache.
text_width_call(text, bold) ==
    IF text = "" THEN [raised |-> None, value |-> 0, store |-> {}]
    ELSE LET key == cache_key(text, bold)
             hit == {e \in text_width_cache : e.key = key}
             exc == create_cairo_surface(measure_body)
             width == text_extents_width(text, bold, conf.font_size, conf.font_family)
         IN  IF hit # {}
             THEN [raised |-> None, value |-> (CHOOSE e \in hit : TRUE).value, store |-> {}]
             ELSE IF exc = None
             THEN [raised |-> None, value |-> (width * 3) \div 2,
                   store |-> {cache_entry(key, width)}]
             ELSE IF except_Exception(exc)
             THEN [raised |-> None, value |-> fallback_width(text, bold), store |-> {}]
             ELSE [raised |-> exc, value |-> 0, store |-> {}]

text_width(text, bold) == text_width_call(text, bold).value

(***************************************************************************)
(* The node classes and their constructors                                 *)
(***************************************************************************)
ContainerClasses == {"SvgXml", "SvgSvg", "SvgGroup", "SvgLink", "SvgRectContainer"}
DirectiveClasses == {"SvgAdvancer", "SvgMoveTo", "SvgCR", "SvgLF"}
PrimitiveClasses == {"SvgLine", "SvgText", "SvgTextCenter", "SvgRect"}
SvgNodeClasses == ContainerClasses \cup DirectiveClasses \cup PrimitiveClasses

\* SvgNode.__init__ and the class attributes w, h, x1, y1, x2, y2
SvgNode(cls) ==
    [cls |-> cls, children |-> <<>>,
     w |-> 0, h |-> 0, x1 |-> 0, y1 |-> 0, x2 |-> 0, y2 |-> 0,
     dx |-> 0, dy |-> 0, x |-> 0, y |-> 0, rat |-> 0, stroke_width |-> 0,
     text |-> "", blod |-> FALSE, href |-> <<>>, fill_color |-> ""]

SvgAdvancer(dx, dy) == [SvgNode("SvgAdvancer") EXCEPT !.dx = dx, !.dy = dy]
SvgMoveTo(x, y) == [SvgNode("SvgMoveTo") EXCEPT !.x = x, !.y = y]
SvgCR == SvgNode("SvgCR")
SvgLF == SvgNode("SvgLF")
SvgXml == SvgNode("SvgXml")
SvgSvg == SvgNode("SvgSvg")
SvgGroup == SvgNode("SvgGroup")
SvgLink(href) == [SvgNode("SvgLink") EXCEPT !.href = href]
SvgRect(w, h) == [SvgNode("SvgRect") EXCEPT !.w = w, !.h = h, !.fill_color = "rgb(0,0,0)"]
SvgRectContainer == [SvgNode("SvgRectContainer") EXCEPT !.fill_color = "rgb(0,0,0)"]
SvgText(text, blod) == [SvgNode("SvgText") EXCEPT !.text = text, !.blod = blod]
SvgTextCenter(text, width, height, blod) ==
    [SvgNode("SvgTextCenter") EXCEPT !.text = text, !.w = width, !.h = height, !.blod = blod]

\* sqrt() on the perfect squares the model draws
sqrt(n) == CHOOSE r \in 0..n : r * r = n

\* self.rat = self.stroke_width / sqrt(self.dx**2 + self.dy**2)
SvgLine(dx, dy, stroke_width) ==
    [SvgNode("SvgLine") EXCEPT !.dx = dx, !.dy = dy, !.stroke_width = stroke_width,
                               !.rat = stroke_width \div sqrt(dx * dx + dy * dy)]

(***************************************************************************)
(* Measurement: width() and height().  t is the tree (the node objects by  *)
(* identity), n the node the method is called on.                          *)
(***************************************************************************)
RECURSIVE width(_, _)
RECURSIVE height(_, _)
RECURSIVE generate(_, _, _, _)

\* SvgAdvancer.width without the advance
SvgAdvancer_width_zero(self) == 0

SvgAdvancer_width(self) == self.dx

SvgAdvancer_height(self) == self.dy

SvgLine_width(self) == self.dx + self.dy * self.rat

SvgLine_height(self) == self.dy + self.dx * self.rat

SvgText_height(self) == line_height(conf) + conf.padding_y * 2

SvgText_width(self) == text_width(self.text, self.blod) + conf.padding_x * 2

\* SvgTextCenter.height adding the text height to the stored one
SvgTextCenter_height_sum(self) == self.h + line_height(conf) + conf.padding_y * 2

SvgTextCenter_height(self) == Max(self.h, line_height(conf) + conf.padding_y * 2)

SvgTextCenter_width(self) ==
    Max(self.w, text_width(self.text, self.blod) + conf.padding_x * 2)

\* a cursor jump that seeds the next section's row with 0
moveto_row_seed_zero(i) == 0

\* SvgNode.height, SvgMoveTo branch: n_height = i.y
moveto_row_seed(i) == i.y

\* the loop of SvgNode.width from child k on
RECURSIVE width_loop(_, _, _, _, _)
width_loop(t, n, k, widths, n_width) ==
    IF k > Len(t[n].children) THEN py_max(Append(widths, n_width))
    ELSE LET i == t[n].children[k] IN
         CASE t[i].cls = "SvgMoveTo" -> width_loop(t, n, k + 1, Append(widths, n_width), t[i].x)
           [] t[i].cls = "SvgCR" -> width_loop(t, n, k + 1, Append(widths, n_width), 0)
           [] OTHER -> width_loop(t, n, k + 1, widths, n_width + width(t, i))

SvgNode_width(t, n) ==
    IF Len(t[n].children) = 0 THEN t[n].w ELSE width_loop(t, n, 1, <<>>, 0)

\* the loop of SvgNode.height from child k on: the value returned, and each
\* heights.append(n_height) of a line feed or a cursor jump, by child index
RECURSIVE height_loop(_, _, _, _, _, _, _)
height_loop(t, n, k, heights, s_heights, n_height, appended) ==
    IF k > Len(t[n].children)
    THEN [value |-> py_max(Append(s_heights, py_sum(Append(heights, n_height)))),
          appended |-> appended]
    ELSE LET i == t[n].children[k] IN
         CASE t[i].cls = "SvgMoveTo" ->
                height_loop(t, n, k + 1, <<>>,
                            Append(s_heights, py_sum(Append(heights, n_height))),
                            moveto_row_seed(t[i]),
                            Append(appended, [k |-> k, row |-> n_height]))
           [] t[i].cls = "SvgLF" ->
                height_loop(t, n, k + 1, Append(heights, n_height), s_heights, 0,
                            Append(appended, [k |-> k, row |-> n_height]))
           [] OTHER ->
                height_loop(t, n, k + 1, heights, s_heights, Max(n_height, height(t, i)),
                            appended)

SvgNode_height(t, n) ==
    IF Len(t[n].children) = 0 THEN t[n].h
    ELSE height_loop(t, n, 1, <<>>, <<>>, 0, <<>>).value

width(t, n) ==
    CASE t[n].cls = "SvgAdvancer" -> SvgAdvancer_width(t[n])
      [] t[n].cls = "SvgLine" -> SvgLine_width(t[n])
      [] t[n].cls = "SvgText" -> SvgText_width(t[n])
      [] t[n].cls = "SvgTextCenter" -> SvgTextCenter_width(t[n])
      [] OTHER -> SvgNode_width(t, n)

height(t, n) ==
    CASE t[n].cls = "SvgAdvancer" -> SvgAdvancer_height(t[n])
      [] t[n].cls = "SvgLine" -> SvgLine_height(t[n])
      [] t[n].cls = "SvgText" -> SvgText_height(t[n])
      [] t[n].cls = "SvgTextCenter" -> SvgTextCenter_height(t[n])
      [] OTHER -> SvgNode_height(t, n)

(***************************************************************************)
(* Markup.  A markup string is the sequence of its elements; an element is *)
(* a record of the tag and of the values the f-string interpolates.        *)
(***************************************************************************)
gen_begin(self) ==
    CASE self.cls = "SvgXml" -> <<[tag |-> "?xml"]>>
      [] self.cls = "SvgSvg" ->
            <<[tag |-> "svg", id |-> "svg-chart", font_family |-> conf.font_family,
               height |-> self.h, width |-> self.w, font_size |-> conf.font_size]>>
      [] self.cls = "SvgGroup" -> <<[tag |-> "g"]>>
      [] self.cls = "SvgLink" -> <<[tag |-> "a", href |-> self.href]>>
      [] self.cls \in {"SvgRect", "SvgRectContainer"} ->
            <<[tag |-> "rect", x |-> self.x1, y |-> self.y1,
               width |-> self.w, height |-> self.h, fill |-> self.fill_color]>>
      [] self.cls = "SvgLine" ->
            <<[tag |-> "line",
               x1 |-> self.x1 + (self.dy * self.rat) \div 2,
               y1 |-> self.y1 + (self.dx * self.rat) \div 2,
               x2 |-> self.x1 + self.dx + (self.dy * self.rat) \div 2,
               y2 |-> self.y1 + self.dy + (self.dx * self.rat) \div 2,
               stroke_width |-> self.stroke_width]>>
      [] self.cls = "SvgText" ->
            <<[tag |-> "text", x |-> self.x1 + conf.padding_x, y |-> self.y1 + self.h \div 2,
               bold |-> self.blod, height |-> self.h,
               width |-> text_width(self.text, FALSE), text |-> self.text]>>
      [] self.cls = "SvgTextCenter" ->
            <<[tag |-> "text",
               x |-> self.x1 + (self.w \div 2 - text_width(self.text, self.blod) \div 2),
               y |-> self.y1 + self.h \div 2,
               bold |-> self.blod, height |-> self.h,
               width |-> text_width(self.text, FALSE), text |-> self.text]>>
      [] OTHER -> <<>>

gen_end(self) ==
    CASE self.cls = "SvgSvg" -> <<[tag |-> "/svg"]>>
      [] self.cls = "SvgGroup" -> <<[tag |-> "/g"]>>
      [] self.cls = "SvgLink" -> <<[tag |-> "/a"]>>
      [] self.cls \in {"SvgText", "SvgTextCenter"} -> <<[tag |-> "/text"]>>
      [] OTHER -> <<>>

(***************************************************************************)
(* Placement: SvgNode.generate                                             *)
(***************************************************************************)
\* the far corner taken from the size alone
far_corner_no_offset(self, xpos, ypos) == [self EXCEPT !.x2 = self.w, !.y2 = self.h]

\* self.x2 = xpos + self.w; self.y2 = ypos + self.h
far_corner(self, xpos, ypos) == [self EXCEPT !.x2 = xpos + self.w, !.y2 = ypos + self.h]

\* SvgCR branch: xpos = 0
cr_xpos(xpos) == 0

\* a line feed that advances by nothing
lf_ypos_keep(ypos, n_height) == ypos

\* SvgLF branch: ypos += n_height
lf_ypos(ypos, n_height) == ypos + n_height

\* a cursor that is not advanced after a child
advance_xpos_keep(xpos, w) == xpos

\* xpos += i.width()
advance_xpos(xpos, w) == xpos + w

\* a cursor jump that leaves the row tracker at 0
moveto_n_height_zero(i) == 0

\* SvgMoveTo branch: n_height = i.y
moveto_n_height(i) == i.y

\* SvgLF branch: ypos += n_height; n_height = 0; xpos and n_width are not assigned
lf_cursor(xpos, ypos, n_width, n_height) ==
    [xpos |-> xpos, ypos |-> lf_ypos(ypos, n_height), n_width |-> n_width, n_height |-> 0]

\* the loop of SvgNode.generate from child k on: the tree and the markup so far,
\* and the cursor and row tracker before and after each line feed processed
RECURSIVE generate_loop(_, _, _, _, _, _, _, _, _)
generate_loop(t, n, k, xpos, ypos, n_width, n_height, res, lfs) ==
    IF k > Len(t[n].children) THEN [t |-> t, res |-> res, lfs |-> lfs]
    ELSE LET i == t[n].children[k] IN
         CASE t[i].cls = "SvgMoveTo" ->
                generate_loop(t, n, k + 1, t[i].x, t[i].y, t[i].x, moveto_n_height(t[i]),
                              res, lfs)
           [] t[i].cls = "SvgCR" ->
                generate_loop(t, n, k + 1, cr_xpos(xpos), ypos, 0, n_height, res, lfs)
           [] t[i].cls = "SvgLF" ->
                LET before == [xpos |-> xpos, ypos |-> ypos,
                               n_width |-> n_width, n_height |-> n_height]
                    after == lf_cursor(xpos, ypos, n_width, n_height)
                IN  generate_loop(t, n, k + 1, after.xpos, after.ypos, after.n_width,
                                  after.n_height, res,
                                  Append(lfs, [node |-> n, k |-> k,
                                               before |-> before, after |-> after]))
           [] OTHER ->
                LET g == generate(t, i, xpos, ypos) IN
                generate_loop(g.t, n, k + 1, advance_xpos(xpos, width(g.t, i)), ypos,
                              n_width + width(g.t, i), Max(n_height, height(g.t, i)),
                              res \o g.res, lfs \o g.lfs)

generate(t, n, xpos, ypos) ==
    LET a == [t EXCEPT ![n].x1 = xpos, ![n].y1 = ypos]
        b == [a EXCEPT ![n].h = height(a, n)]
        c == [b EXCEPT ![n].w = width(b, n)]
        d == [c EXCEPT ![n] = far_corner(c[n], xpos, ypos)]
        loop == generate_loop(d, n, 1, xpos, ypos, 0, 0, gen_begin(d[n]), <<>>)
    IN  [t |-> loop.t, res |-> loop.res \o gen_end(d[n]), lfs |-> loop.lfs]

(***************************************************************************)
(* Tree construction: add_child                                            *)
(***************************************************************************)
\* isinstance(child, SvgNode)
isinstance_SvgNode(child) == child.cls \in SvgNodeClasses

\* the classes that override add_child to raise, SvgRect forgotten
overrides_add_child_but_rect(cls) ==
    cls \in (DirectiveClasses \cup PrimitiveClasses) \ {"SvgRect"}

\* the classes whose add_child override raises RuntimeError
overrides_add_child(cls) == cls \in DirectiveClasses \cup PrimitiveClasses

\* target.add_child(child): the tree afterwards and the exception raised, or None.
\* An accepted child is a new object: it gets the next identity.
add_child(t, target, child) ==
    IF overrides_add_child(t[target].cls) THEN [t |-> t, exc |-> "RuntimeError"]
    ELSE IF ~isinstance_SvgNode(child) THEN [t |-> t, exc |-> "TypeError"]
    ELSE [t |-> Append([t EXCEPT ![target].children = Append(@, Len(t) + 1)], child),
          exc |-> None]

(***************************************************************************)
(* Hit-region overlay: walk and gen_html                                   *)
(***************************************************************************)
RECURSIVE walk(_, _)
RECURSIVE walk_children(_, _, _)
walk_children(t, n, k) ==
    IF k > Len(t[n].children) THEN <<>>
    ELSE walk(t, t[n].children[k]) \o walk_children(t, n, k + 1)

\* for child in self.children: yield from child.walk(); yield self
walk(t, n) == walk_children(t, n, 1) \o <<n>>

\* str.split(sep) on a string given as the sequence of its characters
RECURSIVE split(_, _)
split(s, sep) ==
    IF \A k \in 1..Len(s) : s[k] # sep THEN <<s>>
    ELSE LET k == CHOOSE j \in 1..Len(s) : s[j] = sep /\ \A m \in 1..(j - 1) : s[m] # sep
         IN  <<SubSeq(s, 1, k - 1)>> \o split(SubSeq(s, k + 1, Len(s)), sep)

\* the first segment instead of the last
link_name_first(href) == split(href, "/")[1]

\* name = href.split('/')[-1]
link_name(href) == LET parts == split(href, "/") IN parts[Len(parts)]

RectNode(x1, y1, x2, y2, alt, href) ==
    [shape |-> "rect", x1 |-> x1, y1 |-> y1, x2 |-> x2, y2 |-> y2, alt |-> alt, href |-> href]

\* the loop of gen_html over svg.walk(): the children added to the PicMap
RECURSIVE map_children(_, _)
map_children(t, order) ==
    IF order = <<>> THEN <<>>
    ELSE LET i == t[Head(order)] IN
         (IF i.cls = "SvgLink"
          THEN <<RectNode(i.x1, i.y1, i.x2, i.y2, link_name(i.href), i.href)>>
          ELSE <<>>) \o map_children(t, Tail(order))

gen_html(t, svg, path) ==
    [img_src |-> path, usemap |-> "#svg_map",
     map |-> [name |-> "svg_map", id |-> "svg_map", child |-> map_children(t, walk(t, svg))]]

(***************************************************************************)
(* Inputs                                                                  *)
(***************************************************************************)
Text10 == "RISC-V SoC"

Href1 == <<"d", "/", "b", "/", "x">>
Href2 == <<"y">>
Href3 == <<"d", "/">>

Roots == {SvgSvg, SvgRectContainer}

Rects == {SvgRect(10, 10), SvgRect(4, 6)}

Leaves == Rects \cup {SvgLine(6, 8, 10)}

MoveTos == {SvgMoveTo(0, 0), SvgMoveTo(2, 8), SvgMoveTo(1, 30)}

Advancers == {SvgAdvancer(3, 0), SvgAdvancer(5, 7), SvgAdvancer(2, 20)}

Texts == {SvgText(Text10, FALSE), SvgText(Text10, TRUE), SvgText("", FALSE),
          SvgTextCenter(Text10, 20, 10, TRUE), SvgTextCenter(Text10, 120, 40, FALSE)}

\* the nodes a caller constructs and hands to add_child
NewNodes ==
    {SvgRect(10, 10), SvgTextCenter(Text10, 20, 10, TRUE), SvgLink(Href1), SvgGroup,
     SvgAdvancer(5, 7), SvgMoveTo(2, 30), SvgCR, SvgLF}

\* values that are no SvgNode
NonNodes == {[cls |-> "str"], [cls |-> "NoneType"]}

RootOffsets == {<<0, 0>>, <<3, 5>>}

\* the tree of a parent with the given children, none of which has children
Flat(parent, kids) ==
    <<[parent EXCEPT !.children = [k \in 1..Len(kids) |-> k + 1]]>> \o kids

\* sequences of 1..m elements of S
RECURSIVE SeqsUpTo(_, _)
SeqsUpTo(S, m) ==
    IF m = 0 THEN {<<>>}
    ELSE LET R == SeqsUpTo(S, m - 1) IN R \cup {Append(r, e) : r \in R, e \in S}

NonEmptySeqs(S, m) == SeqsUpTo(S, m) \ {<<>>}

\* every tree add_child can build from a root with at most k nodes
RECURSIVE BuiltTrees(_)
BuiltTrees(k) ==
    IF k = 1 THEN {<<r>> : r \in Roots}
    ELSE LET S == BuiltTrees(k - 1) IN
         S \cup UNION {{add_child(t, target, c).t :
                           target \in {j \in 1..Len(t) : ~overrides_add_child(t[j].cls)},
                           c \in NewNodes} : t \in S}

\* row1, one separator, row2
RowTrees ==
    {Flat(SvgGroup, r1 \o <<sep>> \o r2) :
        r1 \in NonEmptySeqs(Rects, MaxRowLen), r2 \in NonEmptySeqs(Rects, MaxRowLen),
        sep \in {SvgLF} \cup MoveTos}

\* leaves with one fixed advance between each adjacent pair
RECURSIVE Interleave(_, _)
Interleave(row, a) ==
    IF Len(row) <= 1 THEN row ELSE <<Head(row), a>> \o Interleave(Tail(row), a)

AdvanceTrees ==
    {Flat(SvgGroup, Interleave(row, a)) : row \in NonEmptySeqs(Leaves, MaxLeaves), a \in Advancers}

\* rectangle A, carriage return, line feed, rectangle B under the document root
TwoRectTrees == {Flat(SvgSvg, <<a, SvgCR, SvgLF, b>>) : a \in Rects, b \in Rects}

\* text nodes under the document root
TextTrees == {Flat(SvgSvg, kids) : kids \in NonEmptySeqs(Texts, 2)}

\* the tree in which each node is the only child of the one before it
Chain(ns) == [k \in 1..Len(ns) |-> IF k < Len(ns) THEN [ns[k] EXCEPT !.children = <<k + 1>>]
                                                  ELSE ns[k]]

\* link wrappers around a leaf, one inside the other
LinkTrees ==
    {Chain(<<SvgSvg, SvgLink(h), leaf>>) :
        h \in {Href1, Href2, Href3}, leaf \in {SvgText(Text10, FALSE), SvgRect(4, 6)}}
    \cup {add_child(add_child(add_child(Flat(SvgSvg, <<SvgAdvancer(5, 7)>>),
                                         1, SvgLink(Href1)).t, 3, SvgLink(h)).t, 4, SvgRect(4, 6)).t :
             h \in {Href2, Href3}}

\* a cursor jump, a row, a line feed, a rectangle; one jump goes above the origin
FeedJumps == MoveTos \cup {SvgMoveTo(1, 0 - 5)}

FeedRows == {<<>>, <<SvgCR>>} \cup {<<a>> : a \in Rects} \cup {<<a, SvgCR>> : a \in Rects}

FeedTrees ==
    {Flat(SvgGroup, <<j>> \o row \o <<SvgLF, b>>) :
        j \in FeedJumps, row \in FeedRows, b \in Rects}

InputTrees ==
    BuiltTrees(MaxNodes) \cup RowTrees \cup AdvanceTrees \cup TwoRectTrees \cup TextTrees
        \cup LinkTrees \cup FeedTrees

(***************************************************************************)
(* SvgConfManager                                                          *)
(***************************************************************************)
Threads == 1..NumThreads

\* SvgConf objects by identity: the one get_config creates, one the caller made
SvgConfObjects == {"SvgConf()", "conf_a"}

\* what a caller may pass to set_config
SetConfigArgs == {"conf_a", "not an SvgConf"}

isinstance_SvgConf(c) == c \in SvgConfObjects

NoReturn == "no value returned"

ManagerInit ==
    /\ instance = None
    /\ lock = FALSE
    /\ pc = [t \in Threads |-> "idle"]
    /\ arg = [t \in Threads |-> None]
    /\ ret = [t \in Threads |-> NoReturn]
    /\ installed = {}

LayoutIdle ==
    /\ calls = <<>>
    /\ html = <<>>
    /\ result = [target |-> None, node |-> TRUE, exc |-> None]
    /\ conf = DefaultSvgConf
    /\ text_width_cache = {}

(***************************************************************************)
(* Layout: generate() and gen_html() on trees the caller has built         *)
(***************************************************************************)
Init ==
    /\ nodes \in InputTrees
    /\ cairo \in CairoModes
    /\ cairo # "ok" => nodes \in TextTrees    \* the backend matters to text alone
    /\ LayoutIdle
    /\ ManagerInit

\* the text_width calls of one generate(): width() and gen_begin() of each text node
text_width_calls(t) ==
    UNION {{text_width_call(t[n].text, t[n].blod), text_width_call(t[n].text, FALSE)} :
              n \in {m \in 1..Len(t) : t[m].cls \in {"SvgText", "SvgTextCenter"}}}

\* the exception generate() on the root fails with, or None
generate_raises(t) ==
    LET bad == {c \in text_width_calls(t) : c.raised # None} IN
    IF bad = {} THEN None ELSE (CHOOSE c \in bad : TRUE).raised

\* str(root) / root.generate(xpos, ypos)
Generate(xpos, ypos) ==
    /\ Len(calls) < MaxCalls
    /\ LET exc == generate_raises(nodes)
           g == generate(nodes, 1, xpos, ypos)
           \* the root's width() is the first to measure a text: x1, y1 and h are set by then
           a == [nodes EXCEPT ![1].x1 = xpos, ![1].y1 = ypos]
           failed == [a EXCEPT ![1].h = height(a, 1)]
       IN  IF exc = None
           THEN /\ nodes' = g.t
                /\ calls' = Append(calls, [xpos |-> xpos, ypos |-> ypos, raised |-> None,
                                           res |-> g.res, t |-> g.t, lfs |-> g.lfs])
                /\ text_width_cache' =
                       text_width_cache \cup UNION {c.store : c \in text_width_calls(nodes)}
           ELSE /\ nodes' = failed
                /\ calls' = Append(calls, [xpos |-> xpos, ypos |-> ypos, raised |-> exc,
                                           res |-> <<>>, t |-> failed, lfs |-> <<>>])
                /\ UNCHANGED text_width_cache
    /\ UNCHANGED <<html, result, conf, cairo>>
    /\ UNCHANGED managerVars

\* gen_html(root, path), called on a tree that generate() has placed
GenHtml(path) ==
    /\ calls # <<>>
    /\ html' = <<[value |-> gen_html(nodes, 1, path), after |-> Len(calls)]>>
    /\ UNCHANGED <<nodes, calls, result, conf, text_width_cache, cairo>>
    /\ UNCHANGED managerVars

Next ==
    \/ \E o \in RootOffsets : Generate(o[1], o[2])
    \/ GenHtml("matrix.svg")

Spec == Init /\ [][Next]_vars

(***************************************************************************)
(* Construction: add_child() calls on a tree that starts as one node       *)
(***************************************************************************)
BuildRoots == Roots \cup {SvgLine(6, 8, 10), SvgText(Text10, FALSE)}

InitBuild ==
    /\ nodes \in {<<r>> : r \in BuildRoots}
    /\ cairo = "ok"
    /\ LayoutIdle
    /\ ManagerInit

\* nodes[target].add_child(child)
AddChild(target, child) ==
    /\ LET r == add_child(nodes, target, child) IN
       /\ r.exc = None => Len(nodes) < MaxNodes
       /\ nodes' = r.t
       /\ result' = [target |-> nodes[target].cls, node |-> child.cls \in SvgNodeClasses,
                     exc |-> r.exc]
    /\ UNCHANGED <<calls, html, conf, text_width_cache, cairo>>
    /\ UNCHANGED managerVars

NextBuild == \E target \in 1..Len(nodes), child \in NewNodes \cup NonNodes : AddChild(target, child)

SpecBuild == InitBuild /\ [][NextBuild]_vars

(***************************************************************************)
(* SvgConfManager under threads: one action per statement of               *)
(* get_config, set_config and reset_config                                 *)
(***************************************************************************)
InitConf ==
    /\ nodes = <<SvgSvg>>
    /\ cairo = "ok"
    /\ LayoutIdle
    /\ ManagerInit

Goto(t, to) == pc' = [pc EXCEPT ![t] = to]

\* a thread enters get_config
GetConfigCall(t) ==
    /\ pc[t] = "idle"
    /\ Goto(t, "get_check")
    /\ ret' = [ret EXCEPT ![t] = NoReturn]
    /\ UNCHANGED <<instance, lock, arg, installed>>
    /\ UNCHANGED layoutVars

\* if cls._instance is None:
GetConfigCheck(t) ==
    /\ pc[t] = "get_check"
    /\ IF instance = None THEN Goto(t, "get_acquire") ELSE Goto(t, "get_return")
    /\ UNCHANGED <<instance, lock, arg, ret, installed>>
    /\ UNCHANGED layoutVars

\* with cls._lock:
GetConfigAcquire(t) ==
    /\ pc[t] = "get_acquire"
    /\ lock = FALSE
    /\ lock' = TRUE
    /\ Goto(t, "get_recheck")
    /\ UNCHANGED <<instance, arg, ret, installed>>
    /\ UNCHANGED layoutVars

\* if cls._instance is None: cls._instance = SvgConf()
GetConfigCreate(t) ==
    /\ pc[t] = "get_recheck"
    /\ IF instance = None
       THEN instance' = "SvgConf()" /\ installed' = installed \cup {"SvgConf()"}
       ELSE UNCHANGED <<instance, installed>>
    /\ Goto(t, "get_release")
    /\ UNCHANGED <<lock, arg, ret>>
    /\ UNCHANGED layoutVars

\* leaving the with block
GetConfigRelease(t) ==
    /\ pc[t] = "get_release"
    /\ lock' = FALSE
    /\ Goto(t, "get_return")
    /\ UNCHANGED <<instance, arg, ret, installed>>
    /\ UNCHANGED layoutVars

\* return cls._instance
GetConfigReturn(t) ==
    /\ pc[t] = "get_return"
    /\ ret' = [ret EXCEPT ![t] = instance]
    /\ Goto(t, "idle")
    /\ UNCHANGED <<instance, lock, arg, installed>>
    /\ UNCHANGED layoutVars

\* a thread enters set_config(conf); a value that is no SvgConf raises TypeError
SetConfigCall(t, c) ==
    /\ pc[t] = "idle"
    /\ IF isinstance_SvgConf(c)
       THEN Goto(t, "set_acquire") /\ arg' = [arg EXCEPT ![t] = c]
       ELSE Goto(t, "set_raised") /\ arg' = [arg EXCEPT ![t] = c]
    /\ ret' = [ret EXCEPT ![t] = NoReturn]
    /\ UNCHANGED <<instance, lock, installed>>
    /\ UNCHANGED layoutVars

\* the TypeError reaches the caller
SetConfigRaise(t) ==
    /\ pc[t] = "set_raised"
    /\ Goto(t, "idle")
    /\ arg' = [arg EXCEPT ![t] = None]
    /\ UNCHANGED <<instance, lock, ret, installed>>
    /\ UNCHANGED layoutVars

SetConfigAcquire(t) ==
    /\ pc[t] = "set_acquire"
    /\ lock = FALSE
    /\ lock' = TRUE
    /\ Goto(t, "set_assign")
    /\ UNCHANGED <<instance, arg, ret, installed>>
    /\ UNCHANGED layoutVars

\* cls._instance = conf, and leaving the with block
SetConfigAssign(t) ==
    /\ pc[t] = "set_assign"
    /\ instance' = arg[t]
    /\ installed' = installed \cup {arg[t]}
    /\ Goto(t, "set_release")
    /\ UNCHANGED <<lock, arg, ret>>
    /\ UNCHANGED layoutVars

SetConfigRelease(t) ==
    /\ pc[t] = "set_release"
    /\ lock' = FALSE
    /\ Goto(t, "idle")
    /\ arg' = [arg EXCEPT ![t] = None]
    /\ UNCHANGED <<instance, ret, installed>>
    /\ UNCHANGED layoutVars

\* a thread enters reset_config
ResetConfigCall(t) ==
    /\ pc[t] = "idle"
    /\ Goto(t, "reset_acquire")
    /\ ret' = [ret EXCEPT ![t] = NoReturn]
    /\ UNCHANGED <<instance, lock, arg, installed>>
    /\ UNCHANGED layoutVars

ResetConfigAcquire(t) ==
    /\ pc[t] = "reset_acquire"
    /\ lock = FALSE
    /\ lock' = TRUE
    /\ Goto(t, "reset_assign")
    /\ UNCHANGED <<instance, arg, ret, installed>>
    /\ UNCHANGED layoutVars

\* cls._instance = None
ResetConfigAssign(t) ==
    /\ pc[t] = "reset_assign"
    /\ instance' = None
    /\ Goto(t, "reset_release")
    /\ UNCHANGED <<lock, arg, ret, installed>>
    /\ UNCHANGED layoutVars

ResetConfigRelease(t) ==
    /\ pc[t] = "reset_release"
    /\ lock' = FALSE
    /\ Goto(t, "idle")
    /\ UNCHANGED <<instance, arg, ret, installed>>
    /\ UNCHANGED layoutVars

NextConf ==
    \E t \in Threads :
          \/ GetConfigCall(t)
          \/ GetConfigCheck(t)
          \/ GetConfigAcquire(t)
          \/ GetConfigCreate(t)
          \/ GetConfigRelease(t)
          \/ GetConfigReturn(t)
          \/ \E c \in SetConfigArgs : SetConfigCall(t, c)
          \/ SetConfigRaise(t)
          \/ SetConfigAcquire(t)
          \/ SetConfigAssign(t)
          \/ SetConfigRelease(t)
          \/ ResetConfigCall(t)
          \/ ResetConfigAcquire(t)
          \/ ResetConfigAssign(t)
          \/ ResetConfigRelease(t)

SpecConf == InitConf /\ [][NextConf]_vars

(***************************************************************************)
(* Properties                                                              *)
(***************************************************************************)
\* the classes generate() skips: the cursor jump, the carriage return, the line feed
SkippedClasses == {"SvgMoveTo", "SvgCR", "SvgLF"}

Visited(t, n) == t[n].cls \notin SkippedClasses

Ids(t) == 1..Len(t)

LastCall == calls[Len(calls)]

\* C1: after generate(x, y) has returned on the root, every visited node (the
\* root, every descendant that is no cursor jump, carriage return or line
\* feed, fixed advances included) has x2 = x1 + w and y2 = y1 + h, with w and h
\* equal to its own width() and height().
C1_BoundingBox ==
    (calls # <<>> /\ LastCall.raised = None) =>
        \A n \in Ids(nodes) :
            Visited(nodes, n) =>
                /\ nodes[n].x2 = nodes[n].x1 + nodes[n].w
                /\ nodes[n].y2 = nodes[n].y1 + nodes[n].h
                /\ nodes[n].w = width(nodes, n)
                /\ nodes[n].h = height(nodes, n)

\* C1 witness: a tree generated at the offset (3, 5) with a nested container
\* that has a child and a non-empty box away from the origin.
C1_Witness ==
    /\ calls # <<>>
    /\ LastCall.xpos = 3 /\ LastCall.ypos = 5
    /\ \E n \in Ids(nodes) \ {1} :
          /\ nodes[n].cls = "SvgGroup" /\ nodes[n].children # <<>>
          /\ nodes[n].x1 >= 3 /\ nodes[n].x2 > nodes[n].x1 /\ nodes[n].y2 > nodes[n].y1

\* the childless nodes that carry a size of their own
IsLeaf(t, n) == t[n].cls \in PrimitiveClasses

\* node p's children are row1, one separator at position s, row2: two non-empty
\* rows of leaves
TwoRows(t, p, s) ==
    /\ 1 < s /\ s < Len(t[p].children)
    /\ \A k \in 1..Len(t[p].children) : k # s => IsLeaf(t, t[p].children[k])

\* the maximum height() over the children at positions from..to
RowHeight(t, p, from, to) ==
    CHOOSE m \in {height(t, t[p].children[k]) : k \in from..to} :
        \A k \in from..to : height(t, t[p].children[k]) <= m

\* C2 as claimed: with a line feed between the rows the parent's height() is
\* row1_height + row2_height; with a cursor jump between them, whatever its
\* target, it is max(row1_height, row2_height).
C2_Claimed ==
    \A p \in Ids(nodes) : \A s \in 1..Len(nodes[p].children) :
        (calls # <<>> /\ TwoRows(nodes, p, s)) =>
            LET sep == nodes[nodes[p].children[s]]
                r1 == RowHeight(nodes, p, 1, s - 1)
                r2 == RowHeight(nodes, p, s + 1, Len(nodes[p].children))
            IN  /\ sep.cls = "SvgLF" => height(nodes, p) = r1 + r2
                /\ sep.cls = "SvgMoveTo" => height(nodes, p) = Max(r1, r2)

\* C2 amended: with a line feed between the rows the parent's height() is
\* row1_height + row2_height; with a cursor jump to (x, y) between them it is
\* max(row1_height, row2_height, y): the jump's y seeds the second row. The
\* h stored by generate() is that value.
C2_RowHeights ==
    \A p \in Ids(nodes) : \A s \in 1..Len(nodes[p].children) :
        TwoRows(nodes, p, s) =>
            LET sep == nodes[nodes[p].children[s]]
                r1 == RowHeight(nodes, p, 1, s - 1)
                r2 == RowHeight(nodes, p, s + 1, Len(nodes[p].children))
                expected == IF sep.cls = "SvgLF" THEN r1 + r2 ELSE Max(r1, Max(r2, sep.y))
            IN  sep.cls \in {"SvgLF", "SvgMoveTo"} =>
                    /\ height(nodes, p) = expected
                    /\ (calls # <<>> /\ LastCall.raised = None) => nodes[p].h = expected

\* C2 witness: a generated parent of two rows separated by a cursor jump whose
\* y exceeds both row heights.
C2_Witness ==
    /\ calls # <<>>
    /\ \E s \in 1..Len(nodes[1].children) :
          /\ TwoRows(nodes, 1, s)
          /\ nodes[nodes[1].children[s]].cls = "SvgMoveTo"
          /\ nodes[nodes[1].children[s]].y = 30
          /\ nodes[1].h = 30
          /\ Len(nodes[1].children) = 4

\* node p's children are leaves with exactly one fixed advance between each
\* adjacent pair, all advances alike
AdvanceRow(t, p) ==
    LET kids == t[p].children IN
    /\ Len(kids) % 2 = 1
    /\ \A k \in 1..Len(kids) :
          IF k % 2 = 1 THEN IsLeaf(t, kids[k])
          ELSE /\ t[kids[k]].cls = "SvgAdvancer"
               /\ t[kids[k]].dx = t[kids[2]].dx /\ t[kids[k]].dy = t[kids[2]].dy

LeafPositions(t, p) == {k \in 1..Len(t[p].children) : k % 2 = 1}

RECURSIVE SumOver(_, _, _)
SumOver(t, p, ks) ==
    IF ks = {} THEN 0
    ELSE LET k == CHOOSE j \in ks : TRUE IN width(t, t[p].children[k]) + SumOver(t, p, ks \ {k})

MaxLeafHeight(t, p) ==
    CHOOSE m \in {height(t, t[p].children[k]) : k \in LeafPositions(t, p)} :
        \A k \in LeafPositions(t, p) : height(t, t[p].children[k]) <= m

\* C3 as claimed: N leaves with one fixed advance of value a between each
\* adjacent pair give width() = sum of the leaf widths + (N-1)*a and
\* height() = the maximum leaf height.
C3_Claimed ==
    \A p \in Ids(nodes) :
        (calls # <<>> /\ nodes[p].children # <<>> /\ AdvanceRow(nodes, p)) =>
            LET N == Cardinality(LeafPositions(nodes, p))
                a == IF N > 1 THEN nodes[nodes[p].children[2]].dx ELSE 0
            IN  /\ width(nodes, p) = SumOver(nodes, p, LeafPositions(nodes, p)) + (N - 1) * a
                /\ height(nodes, p) = MaxLeafHeight(nodes, p)

\* C3 amended: N leaves with one fixed advance (dx = a, dy) between each
\* adjacent pair give width() = sum of the leaf widths + (N-1)*a and
\* height() = the maximum of the leaf heights and, when N > 1, of dy.
C3_AdvanceRow ==
    \A p \in Ids(nodes) :
        (nodes[p].children # <<>> /\ AdvanceRow(nodes, p)) =>
            LET N == Cardinality(LeafPositions(nodes, p))
                a == IF N > 1 THEN nodes[nodes[p].children[2]].dx ELSE 0
                dy == IF N > 1 THEN nodes[nodes[p].children[2]].dy ELSE 0
            IN  /\ width(nodes, p) = SumOver(nodes, p, LeafPositions(nodes, p)) + (N - 1) * a
                /\ height(nodes, p) = Max(MaxLeafHeight(nodes, p), dy)
                /\ (calls # <<>> /\ LastCall.raised = None) =>
                      /\ nodes[p].w = SumOver(nodes, p, LeafPositions(nodes, p)) + (N - 1) * a
                      /\ nodes[p].h = Max(MaxLeafHeight(nodes, p), dy)

\* C3 witness: a generated row of three leaves and two advances of dx = 2,
\* dy = 20, taller than every leaf.
C3_Witness ==
    /\ calls # <<>>
    /\ AdvanceRow(nodes, 1)
    /\ Len(nodes[1].children) = 5
    /\ nodes[nodes[1].children[2]].dx = 2
    /\ nodes[1].h = 20
    /\ nodes[1].w > 4

\* the tree is a document root over rectangle A, carriage return, line feed,
\* rectangle B
TwoRects(t) ==
    /\ Len(t) = 5
    /\ t[1].cls = "SvgSvg" /\ t[1].children = <<2, 3, 4, 5>>
    /\ t[2].cls = "SvgRect" /\ t[3].cls = "SvgCR" /\ t[4].cls = "SvgLF" /\ t[5].cls = "SvgRect"

Elements(res, tag) == SelectSeq(res, LAMBDA e : e.tag = tag)

\* C4: a root over rectangle A, carriage return, line feed, rectangle B,
\* generated at (xpos, ypos), declares height hA + hB and width max(wA, wB)
\* and emits exactly two rect elements: A at (xpos, ypos), B at x = 0 (where
\* the carriage return puts the cursor) and y = ypos + hA. With A and B both
\* 10 by 10 at the offset (0, 0): height 20, width 10, y-offsets 0 and 10.
C4_TwoRects ==
    \A k \in 1..Len(calls) :
        LET c == calls[k]
            A == c.t[2]
            B == c.t[5]
            svg == Elements(c.res, "svg")
            rects == Elements(c.res, "rect")
        IN  (TwoRects(c.t) /\ c.raised = None) =>
                /\ Len(svg) = 1 /\ c.res[1] = svg[1]
                /\ svg[1].height = A.h + B.h
                /\ svg[1].width = Max(A.w, B.w)
                /\ Len(rects) = 2
                /\ rects[1].x = c.xpos /\ rects[1].y = c.ypos
                /\ rects[1].width = A.w /\ rects[1].height = A.h
                /\ rects[2].x = 0 /\ rects[2].y = c.ypos + A.h
                /\ rects[2].width = B.w /\ rects[2].height = B.h
                /\ (A.w = 10 /\ A.h = 10 /\ B.w = 10 /\ B.h = 10 /\ c.xpos = 0 /\ c.ypos = 0) =>
                      /\ svg[1].height = 20 /\ svg[1].width = 10
                      /\ rects[1].y = 0 /\ rects[2].y = 10

\* C4 witness: the two 10 by 10 rectangles generated at (0, 0), the document
\* declaring height 20.
C4_Witness ==
    /\ calls # <<>>
    /\ TwoRects(nodes)
    /\ LastCall.xpos = 0 /\ LastCall.ypos = 0
    /\ nodes[2].w = 10 /\ nodes[2].h = 10 /\ nodes[5].w = 10 /\ nodes[5].h = 10
    /\ LastCall.res[1].height = 20
    /\ nodes[5].y1 = 10

\* the parent of node n (0 for the root) and n's position among its siblings
Parent(t, n) ==
    IF \E p \in Ids(t) : \E k \in 1..Len(t[p].children) : t[p].children[k] = n
    THEN CHOOSE p \in Ids(t) : \E k \in 1..Len(t[p].children) : t[p].children[k] = n
    ELSE 0

Position(t, n) == CHOOSE k \in 1..Len(t[Parent(t, n)].children) : t[Parent(t, n)].children[k] = n

\* the positions to follow from the root down to n
RECURSIVE Path(_, _)
Path(t, n) == IF Parent(t, n) = 0 THEN <<>> ELSE Append(Path(t, Parent(t, n)), Position(t, n))

IsPrefix(a, b) == Len(a) <= Len(b) /\ SubSeq(b, 1, Len(a)) = a

\* depth-first, children before self: a comes before b when a lies below b, or
\* in a subtree to the left of b's
Before(t, a, b) ==
    LET pa == Path(t, a)
        pb == Path(t, b)
    IN  \/ (pa # pb /\ IsPrefix(pb, pa))
        \/ \E i \in 1..Len(pa) :
              /\ i <= Len(pb)
              /\ SubSeq(pa, 1, i - 1) = SubSeq(pb, 1, i - 1)
              /\ pa[i] < pb[i]

Links(t) == {n \in Ids(t) : t[n].cls = "SvgLink"}

\* the k-th link wrapper in depth-first, children-before-self order
LinkAt(t, k) == CHOOSE n \in Links(t) : Cardinality({m \in Links(t) : Before(t, m, n)}) = k - 1

\* the part of a link target after its last '/'
LastSegment(href) ==
    LET slashes == {k \in 1..Len(href) : href[k] = "/"}
        from == IF slashes = {} THEN 1 ELSE 1 + CHOOSE k \in slashes : \A j \in slashes : j <= k
    IN  SubSeq(href, from, Len(href))

\* C5: gen_html on a generated tree emits exactly one rect region per link
\* wrapper and none for other nodes, in depth-first children-before-self
\* order; each region carries the wrapper's x1, y1, x2, y2, the last
\* '/'-separated segment of the link target as its label and the link target
\* as its reference.
C5_Overlay ==
    html # <<>> =>
        LET t == calls[html[1].after].t
            areas == html[1].value.map.child
        IN  calls[html[1].after].raised = None =>
                /\ Len(areas) = Cardinality(Links(t))
                /\ \A k \in 1..Len(areas) :
                      LET link == t[LinkAt(t, k)] IN
                      /\ areas[k].shape = "rect"
                      /\ areas[k].x1 = link.x1 /\ areas[k].y1 = link.y1
                      /\ areas[k].x2 = link.x2 /\ areas[k].y2 = link.y2
                      /\ areas[k].alt = LastSegment(link.href)
                      /\ areas[k].href = link.href

\* C5 witness: an overlay of two nested link wrappers, the inner one first,
\* with non-empty boxes away from the origin and the labels "y" and "x".
C5_Witness ==
    /\ html # <<>>
    /\ Len(html[1].value.map.child) = 2
    /\ html[1].value.map.child[1].href = Href2
    /\ html[1].value.map.child[1].alt = <<"y">>
    /\ html[1].value.map.child[2].alt = <<"x">>
    /\ html[1].value.map.child[2].x1 > 0
    /\ html[1].value.map.child[2].x2 > html[1].value.map.child[2].x1

\* C6: a generate() call with the same root offset as the call before it, on
\* the same tree and configuration, returns the same markup and leaves every
\* node's w, h, x1, y1, x2, y2 as the first call left them.
C6_Deterministic ==
    \A k \in 1..(Len(calls) - 1) :
        (calls[k].xpos = calls[k + 1].xpos /\ calls[k].ypos = calls[k + 1].ypos) =>
            /\ calls[k + 1].res = calls[k].res
            /\ calls[k + 1].raised = calls[k].raised
            /\ calls[k + 1].t = calls[k].t

\* C6 witness: two calls at (3, 5) on a tree with a centered text whose stored
\* size the first call has raised from 20 by 10 to the text's natural size.
C6_Witness ==
    /\ Len(calls) >= 2
    /\ calls[1].xpos = 3 /\ calls[2].xpos = 3 /\ calls[1].ypos = 5 /\ calls[2].ypos = 5
    /\ calls[2].res # <<>>
    /\ \E n \in Ids(nodes) :
          nodes[n].cls = "SvgTextCenter" /\ nodes[n].h = 28 /\ nodes[n].w > 20

\* the classes that take no children: line, rectangle, text, centered text and
\* the four directives
ChildlessOnly ==
    {"SvgLine", "SvgRect", "SvgText", "SvgTextCenter",
     "SvgAdvancer", "SvgMoveTo", "SvgCR", "SvgLF"}

\* C7: an add_child call on a line, rectangle, text, centered text or
\* directive node, or with a value that is no node, raises at the call and
\* leaves the tree as it was; so a childless-only node never has a child and
\* every child is a node.
C7_AddChildRejects ==
    /\ [][(result'.target \in ChildlessOnly \/ ~result'.node) =>
              (result'.exc # None /\ nodes' = nodes)]_vars
    /\ [](\A n \in Ids(nodes) :
              /\ nodes[n].cls \in ChildlessOnly => nodes[n].children = <<>>
              /\ nodes[n].cls \in SvgNodeClasses
              /\ \A k \in 1..Len(nodes[n].children) : nodes[n].children[k] \in Ids(nodes))

\* C7 witness: a rectangle that was itself attached has refused a node as its
\* child.
C7_Witness ==
    /\ result.target = "SvgRect" /\ result.node /\ result.exc = "RuntimeError"
    /\ Len(nodes) >= 2
    /\ \A n \in Ids(nodes) : nodes[n].cls = "SvgRect" => nodes[n].children = <<>>

\* C8 as claimed: every get_config call returns an SvgConf that set_config
\* installed or that get_config created, never None.
C8_GetConfigReturnsInstance ==
    \A t \in Threads : ret[t] # NoReturn => (ret[t] # None /\ ret[t] \in installed)

C10_HorizontalAdvance ==
    (calls # <<>> /\ LastCall.raised = None) =>
        \A p \in Ids(nodes) :
            LET kids == nodes[p].children IN
            /\ (kids # <<>> /\ Visited(nodes, p) /\ Visited(nodes, kids[1])) =>
                  /\ nodes[kids[1]].x1 = nodes[p].x1
                  /\ nodes[kids[1]].y1 = nodes[p].y1
            /\ \A k \in 1..(Len(kids) - 1) :
                  (Visited(nodes, kids[k]) /\ Visited(nodes, kids[k + 1])) =>
                      /\ nodes[kids[k + 1]].x1 = nodes[kids[k]].x1 + width(nodes, kids[k])
                      /\ nodes[kids[k + 1]].y1 = nodes[kids[k]].y1

\* C10 witness: a generated parent away from the origin whose second child
\* follows a first child of positive width.
C10_Witness ==
    /\ calls # <<>>
    /\ \E p \in Ids(nodes) :
          /\ Len(nodes[p].children) >= 2
          /\ nodes[p].x1 > 0 /\ nodes[p].y1 > 0
          /\ Visited(nodes, nodes[p].children[1]) /\ Visited(nodes, nodes[p].children[2])
          /\ nodes[nodes[p].children[1]].w > 0
          /\ nodes[nodes[p].children[2]].x1 > nodes[p].x1

(***************************************************************************)
(* Line feeds: placement against measurement                               *)
(***************************************************************************)
\* the index of the line feed or cursor jump that opened the row child k of p
\* closes, 0 when the row starts with the first child
RowOpener(t, p, k) ==
    LET S == {j \in 1..(k - 1) : t[t[p].children[j]].cls \in {"SvgLF", "SvgMoveTo"}}
    IN  IF S = {} THEN 0 ELSE CHOOSE j \in S : \A m \in S : m <= j

\* the children of p in the row that child k closes
RowChildren(t, p, k) == {t[p].children[j] : j \in (RowOpener(t, p, k) + 1)..(k - 1)}

PlacedInRow(t, p, k) == {i \in RowChildren(t, p, k) : t[i].cls \notin SkippedClasses}

HasCR(t, p, k) == \E i \in RowChildren(t, p, k) : t[i].cls = "SvgCR"

SetMax(S) == CHOOSE x \in S : \A y \in S : y <= x

\* the tallest child height seen in the row, 0 for a row without children
TallestInRow(t, p, k) ==
    SetMax({0} \cup {height(t, i) : i \in PlacedInRow(t, p, k)})

\* what the row starts from: the y of the cursor jump that opened it, else 0
RowSeed(t, p, k) ==
    LET o == RowOpener(t, p, k) IN
    IF o # 0 /\ t[t[p].children[o]].cls = "SvgMoveTo" THEN t[t[p].children[o]].y ELSE 0

\* the row value: the largest of the seed and the child heights of the row
RowValue(t, p, k) ==
    SetMax({RowSeed(t, p, k)} \cup {height(t, i) : i \in PlacedInRow(t, p, k)})

\* what height() of p appends to its row list at child k
Appended(t, p, k) ==
    LET a == height_loop(t, p, 1, <<>>, <<>>, 0, <<>>).appended
    IN  a[CHOOSE j \in 1..Len(a) : a[j].k = k].row

\* the line feeds generate() call c has processed, in every node of the tree
LineFeedsOf(c) == {calls[c].lfs[j] : j \in 1..Len(calls[c].lfs)}

NonNegativeSizes(t) ==
    \A n \in 1..Len(t) :
        /\ t[n].w >= 0 /\ t[n].h >= 0
        /\ t[n].dx >= 0 /\ t[n].dy >= 0
        /\ t[n].x >= 0 /\ t[n].y >= 0

\* the placed children of p: those generate() is called on
PlacedChildren(t, p) ==
    {t[p].children[k] : k \in {j \in 1..Len(t[p].children) :
                                  t[t[p].children[j]].cls \notin SkippedClasses}}

\* the box of i lies inside the box of p
Inside(t, i, p) ==
    /\ t[p].x1 <= t[i].x1 /\ t[i].x2 <= t[p].x2
    /\ t[p].y1 <= t[i].y1 /\ t[i].y2 <= t[p].y2

\* C12: after generate(0, 0) on a root whose tree has no negative size or
\* cursor-jump target, the bounding box of every placed child lies inside the
\* bounding box of its parent.
C12_Containment ==
    \A c \in 1..Len(calls) :
        LET t == calls[c].t IN
        (calls[c].xpos = 0 /\ calls[c].ypos = 0 /\ calls[c].raised = None
            /\ NonNegativeSizes(t))
        => \A p \in 1..Len(t) : \A i \in PlacedChildren(t, p) : Inside(t, i, p)

====
